---- MODULE Spec2Model ----
(***************************************************************************)
(* State-machine model of mmrazor's NativeQuantizer                        *)
(* (mmrazor/models/quantizers/native_quantizer.py).                        *)
(*                                                                         *)
(* The quantizer object is one record; the FX graph of the prepared       *)
(* module is a linear dataflow chain of nodes (a fake-quant node sits on   *)
(* the edge between its two neighbours); the module hierarchy handed to    *)
(* post_process_weight_fakequant is a tree of module records keyed by      *)
(* child name.  Tensors are symbolic terms: a weight is the sequence of    *)
(* operations ("fq" = a weight fake-quant forward, "fold" = batch-norm     *)
(* folding) applied to the trained weight <<"w">>, so that no algebraic    *)
(* identity between fake-quantization and folding is assumed.              *)
(***************************************************************************)
EXTENDS Integers, Sequences, FiniteSets, TLC

VARIABLES
    quantizer,        \* the NativeQuantizer object (its attributes)
    prepared,         \* Option: FX graph of the last graph handled
    observed_module,  \* Option: module hierarchy of the observed module
    pass_log,         \* calls made by the last del_redundant_fakequant
    prepare_log,      \* steps made by the last prepare
    last_call,        \* the last API call and its arguments
    pp_calls          \* post_process_weight_fakequant calls on observed_module

vars == <<quantizer, prepared, observed_module, pass_log, prepare_log,
          last_call, pp_calls>>

----------------------------------------------------------------------------
(* Bounds                                                                   *)

MaxNodes == 3      \* nodes of an observed graph given to the pruner
MaxExtra == 1      \* non-empty extra exempt lists in extra_redundant_fakequants
MaxTraced == 3     \* call nodes of a traced graph given to prepare
MaxDepth == 2      \* nesting depth of a fused-QAT module in the module tree
MaxCalls == 2      \* post_process_weight_fakequant calls on one module tree

----------------------------------------------------------------------------
(* Python values                                                            *)

None == <<>>
Some(x) == <<x>>
IsSome(o) == Len(o) = 1
Range(s) == {s[i] : i \in DOMAIN s}

\* A Python value that is None or a list.
PyNone == [is_none |-> TRUE, items |-> <<>>]
PyList(l) == [is_none |-> FALSE, items |-> l]
Truthy(v) == ~v.is_none /\ Len(v.items) > 0

\* dict.get(key, default)
DictGet(d, key, default) == IF key \in DOMAIN d THEN d[key] ELSE default

----------------------------------------------------------------------------
(* Module types                                                             *)

SUPPORT_QAT_MODULES ==
    {"nniqat.ConvBn1d", "nniqat.ConvBn2d", "nniqat.ConvBn3d",
     "nniqat.ConvBnReLU1d", "nniqat.ConvBnReLU2d", "nniqat.ConvBnReLU3d",
     "nniqat.ConvReLU1d", "nniqat.ConvReLU2d", "nniqat.ConvReLU3d",
     "nniqat.LinearBn1d", "nniqat.LinearReLU",
     "nnqat.Conv1d", "nnqat.Conv2d", "nnqat.Conv3d", "nnqat.Linear"}

\* Variant: ConvBnReLU2d merged to the type without ReLU.
MERGE_BN_MAPPINGS_bad ==
    [t \in {"nniqat.ConvBn1d", "nniqat.ConvBn2d", "nniqat.ConvBn3d",
            "nniqat.ConvBnReLU1d", "nniqat.ConvBnReLU2d",
            "nniqat.ConvBnReLU3d", "nniqat.LinearBn1d"} |->
        CASE t = "nniqat.ConvBn1d" -> "nnqat.Conv1d"
          [] t = "nniqat.ConvBn2d" -> "nnqat.Conv2d"
          [] t = "nniqat.ConvBn3d" -> "nnqat.Conv3d"
          [] t = "nniqat.ConvBnReLU1d" -> "nniqat.ConvReLU1d"
          [] t = "nniqat.ConvBnReLU2d" -> "nnqat.Conv2d"
          [] t = "nniqat.ConvBnReLU3d" -> "nniqat.ConvReLU3d"
          [] t = "nniqat.LinearBn1d" -> "nnqat.Linear"]

MERGE_BN_MAPPINGS ==
    [t \in {"nniqat.ConvBn1d", "nniqat.ConvBn2d", "nniqat.ConvBn3d",
            "nniqat.ConvBnReLU1d", "nniqat.ConvBnReLU2d",
            "nniqat.ConvBnReLU3d", "nniqat.LinearBn1d"} |->
        CASE t = "nniqat.ConvBn1d" -> "nnqat.Conv1d"
          [] t = "nniqat.ConvBn2d" -> "nnqat.Conv2d"
          [] t = "nniqat.ConvBn3d" -> "nnqat.Conv3d"
          [] t = "nniqat.ConvBnReLU1d" -> "nniqat.ConvReLU1d"
          [] t = "nniqat.ConvBnReLU2d" -> "nniqat.ConvReLU2d"
          [] t = "nniqat.ConvBnReLU3d" -> "nniqat.ConvReLU3d"
          [] t = "nniqat.LinearBn1d" -> "nnqat.Linear"]

----------------------------------------------------------------------------
(* Construction                                                             *)

backend == "native"
support_w_modes == <<"per_tensor", "per_channel">>
\* Variant: per-channel activation accepted as well.
support_a_modes_both == <<"per_tensor", "per_channel">>
support_a_modes == <<"per_tensor">>

\* The eight base exempt lists: all empty in this quantizer.
module_prev_wo_fakequant == <<>>
module_next_wo_fakequant == <<>>
function_prev_wo_fakequant == <<>>
function_next_wo_fakequant == <<>>
method_prev_wo_fakequant == <<>>
method_next_wo_fakequant == <<>>
op_prev_wo_fakequant == <<>>
op_next_wo_fakequant == <<>>

\* QConfigHander(global_qconfig): the resolved configuration with its two
\* per-channel flags.
QConfigHander(global_qconfig) ==
    [w_qscheme |-> [is_per_channel |-> global_qconfig.w_per_channel],
     a_qscheme |-> [is_per_channel |-> global_qconfig.a_per_channel]]

\* QConfigHander.convert(): the backend-native QConfig.
convert(qconfig) ==
    [weight |-> IF qconfig.w_qscheme.is_per_channel
                THEN "per_channel" ELSE "per_tensor",
     activation |-> IF qconfig.a_qscheme.is_per_channel
                    THEN "per_channel" ELSE "per_tensor"]

\* str2class: a dotted name resolves to the class it names.
ClassOfName(name) ==
    CASE name = "torch.nn.ReLU" -> "nn.ReLU"
      [] name = "torch.nn.Conv2d" -> "nn.Conv2d"
      [] name = "torch.nn.Linear" -> "nn.Linear"
      [] OTHER -> "object"
str2class(names) == [i \in DOMAIN names |-> ClassOfName(names[i])]

BackendConfigs(name) == [name |-> name]

\* QConfigMapping: the global default and the object-type entries, in the
\* order they were set.
QConfigMapping_new == [global |-> None, object_type |-> <<>>]
set_global(mapping, qc) == [mapping EXCEPT !.global = Some(qc)]
set_object_type(mapping, cls, qc) ==
    [mapping EXCEPT !.object_type =
        IF \E i \in DOMAIN @ : @[i].cls = cls
        THEN [i \in DOMAIN @ |-> IF @[i].cls = cls
                                 THEN [cls |-> cls, qconfig |-> qc] ELSE @[i]]
        ELSE Append(@, [cls |-> cls, qconfig |-> qc])]

RECURSIVE SetAllNone(_, _, _)
SetAllNone(mapping, mods, i) ==
    IF i > Len(mods) THEN mapping
    ELSE SetAllNone(set_object_type(mapping, mods[i], None), mods, i + 1)

\* Variant: the no-observer types are stored but never entered in the mapping.
BuildMapping_noentries(qconfig, no_observer_modules) ==
    LET base == set_global(QConfigMapping_new, convert(qconfig))
    IN IF Truthy(no_observer_modules)
       THEN [mapping |-> base,
             no_observer_modules |-> PyList(str2class(no_observer_modules.items))]
       ELSE [mapping |-> base, no_observer_modules |-> no_observer_modules]

\* Lines 123-130: the mapping and the stored no_observer_modules.
BuildMapping(qconfig, no_observer_modules) ==
    LET base == set_global(QConfigMapping_new, convert(qconfig))
    IN IF Truthy(no_observer_modules)
       THEN [mapping |-> SetAllNone(base, str2class(no_observer_modules.items), 1),
             no_observer_modules |-> PyList(str2class(no_observer_modules.items))]
       ELSE [mapping |-> base, no_observer_modules |-> no_observer_modules]

NoQuantizer ==
    [state |-> "none", error |-> "", tracer |-> None, qconfig |-> None,
     qconfig_mapping |-> None, no_observer_modules |-> None,
     backend_config |-> None, example_inputs |-> None,
     extra_redundant_fakequants |-> None]

\* NativeQuantizer.__init__: the object as the constructor leaves it.  A
\* failed assertion leaves the attributes assigned before it.
NativeQuantizer_init(cfg) ==
    LET qc == QConfigHander(cfg.global_qconfig)
        q1 == [NoQuantizer EXCEPT !.tracer = Some(cfg.tracer),
                                  !.qconfig = Some(qc)]
        w_mode == IF qc.w_qscheme.is_per_channel
                  THEN "per_channel" ELSE "per_tensor"
        a_mode == IF qc.a_qscheme.is_per_channel
                  THEN "per_channel" ELSE "per_tensor"
        built == BuildMapping(qc, cfg.no_observer_modules)
    IN IF w_mode \notin Range(support_w_modes)
          \/ a_mode \notin Range(support_a_modes)
       THEN [q1 EXCEPT !.state = "failed", !.error = "AssertionError"]
       ELSE [q1 EXCEPT
               !.state = "ok",
               !.qconfig_mapping = Some(built.mapping),
               !.no_observer_modules = Some(built.no_observer_modules),
               !.backend_config = Some(BackendConfigs(backend)),
               !.example_inputs = Some(<<1, 3, 224, 224>>),
               !.extra_redundant_fakequants =
                   Some(cfg.extra_redundant_fakequants)]

----------------------------------------------------------------------------
(* FX graph: a chain of nodes                                               *)

CallKinds == {"module", "function", "method", "op"}
FQ == [kind |-> "fakequant", target |-> "FakeQuantize"]
Call(kind, target) == [kind |-> kind, target |-> target]
IsFQ(node) == node.kind = "fakequant"

RECURSIVE KeepIdx(_, _, _)
KeepIdx(g, keep, i) ==
    IF i > Len(g) THEN <<>>
    ELSE (IF i \in keep THEN <<g[i]>> ELSE <<>>) \o KeepIdx(g, keep, i + 1)

Matches(node, kind, exempt) == node.kind = kind /\ node.target \in Range(exempt)

\* Variant: the matching call is erased instead of the fake-quant node
\* before it.
DelBefore_erasecall(g, kind, exempt) ==
    KeepIdx(g, {i \in 1..Len(g) :
                  ~(/\ ~IsFQ(g[i]) /\ Matches(g[i], kind, exempt)
                    /\ i > 1 /\ IsFQ(g[i - 1]))}, 1)

\* Erase every fake-quant node immediately before a matching call.
DelBefore(g, kind, exempt) ==
    KeepIdx(g, {i \in 1..Len(g) :
                  ~(IsFQ(g[i]) /\ i < Len(g) /\ Matches(g[i + 1], kind, exempt))}, 1)

\* Erase every fake-quant node immediately after a matching call.
DelAfter(g, kind, exempt) ==
    KeepIdx(g, {i \in 1..Len(g) :
                  ~(IsFQ(g[i]) /\ i > 1 /\ Matches(g[i - 1], kind, exempt))}, 1)

del_fakequant_before_module(g, exempt) == DelBefore(g, "module", exempt)
del_fakequant_after_module(g, exempt) == DelAfter(g, "module", exempt)
del_fakequant_before_function(g, exempt) == DelBefore(g, "function", exempt)
del_fakequant_after_function(g, exempt) == DelAfter(g, "function", exempt)
del_fakequant_before_method(g, exempt) == DelBefore(g, "method", exempt)
del_fakequant_after_method(g, exempt) == DelAfter(g, "method", exempt)
del_fakequant_before_op(g, exempt) == DelBefore(g, "op", exempt)
del_fakequant_after_op(g, exempt) == DelAfter(g, "op", exempt)

ApplyPass(g, call) ==
    CASE call.fn = "del_fakequant_before_module" ->
            del_fakequant_before_module(g, call.arg)
      [] call.fn = "del_fakequant_after_module" ->
            del_fakequant_after_module(g, call.arg)
      [] call.fn = "del_fakequant_before_function" ->
            del_fakequant_before_function(g, call.arg)
      [] call.fn = "del_fakequant_after_function" ->
            del_fakequant_after_function(g, call.arg)
      [] call.fn = "del_fakequant_before_method" ->
            del_fakequant_before_method(g, call.arg)
      [] call.fn = "del_fakequant_after_method" ->
            del_fakequant_after_method(g, call.arg)
      [] call.fn = "del_fakequant_before_op" ->
            del_fakequant_before_op(g, call.arg)
      [] call.fn = "del_fakequant_after_op" ->
            del_fakequant_after_op(g, call.arg)

\* Variant: the module-before pass reads the module-after extra list.
del_redundant_fakequant_calls_wrongkey(extra) ==
    <<[fn |-> "del_fakequant_before_module",
       arg |-> module_prev_wo_fakequant
               \o DictGet(extra, "extra_module_next_wo_fakequant", <<>>)],
      [fn |-> "del_fakequant_after_module",
       arg |-> module_next_wo_fakequant
               \o DictGet(extra, "extra_module_next_wo_fakequant", <<>>)],
      [fn |-> "del_fakequant_before_method",
       arg |-> function_prev_wo_fakequant
               \o DictGet(extra, "extra_function_prev_wo_fakequant", <<>>)],
      [fn |-> "del_fakequant_after_method",
       arg |-> function_next_wo_fakequant
               \o DictGet(extra, "extra_function_next_wo_fakequant", <<>>)],
      [fn |-> "del_fakequant_before_function",
       arg |-> method_prev_wo_fakequant
               \o DictGet(extra, "extra_method_prev_wo_fakequant", <<>>)],
      [fn |-> "del_fakequant_after_function",
       arg |-> method_next_wo_fakequant
               \o DictGet(extra, "extra_method_next_wo_fakequant", <<>>)],
      [fn |-> "del_fakequant_before_op",
       arg |-> op_prev_wo_fakequant
               \o DictGet(extra, "extra_op_prev_wo_fakequant", <<>>)],
      [fn |-> "del_fakequant_after_op",
       arg |-> op_next_wo_fakequant
               \o DictGet(extra, "extra_op_next_wo_fakequant", <<>>)]>>

\* The eight calls of del_redundant_fakequant, in source order, each with
\* the exempt list the source passes to it.
del_redundant_fakequant_calls(extra) ==
    <<[fn |-> "del_fakequant_before_module",
       arg |-> module_prev_wo_fakequant
               \o DictGet(extra, "extra_module_prev_wo_fakequant", <<>>)],
      [fn |-> "del_fakequant_after_module",
       arg |-> module_next_wo_fakequant
               \o DictGet(extra, "extra_module_next_wo_fakequant", <<>>)],
      [fn |-> "del_fakequant_before_method",
       arg |-> function_prev_wo_fakequant
               \o DictGet(extra, "extra_function_prev_wo_fakequant", <<>>)],
      [fn |-> "del_fakequant_after_method",
       arg |-> function_next_wo_fakequant
               \o DictGet(extra, "extra_function_next_wo_fakequant", <<>>)],
      [fn |-> "del_fakequant_before_function",
       arg |-> method_prev_wo_fakequant
               \o DictGet(extra, "extra_method_prev_wo_fakequant", <<>>)],
      [fn |-> "del_fakequant_after_function",
       arg |-> method_next_wo_fakequant
               \o DictGet(extra, "extra_method_next_wo_fakequant", <<>>)],
      [fn |-> "del_fakequant_before_op",
       arg |-> op_prev_wo_fakequant
               \o DictGet(extra, "extra_op_prev_wo_fakequant", <<>>)],
      [fn |-> "del_fakequant_after_op",
       arg |-> op_next_wo_fakequant
               \o DictGet(extra, "extra_op_next_wo_fakequant", <<>>)]>>

RECURSIVE RunPasses(_, _, _)
RunPasses(g, calls, i) ==
    IF i > Len(calls) THEN g
    ELSE RunPasses(ApplyPass(g, calls[i]), calls, i + 1)

\* NativeQuantizer.del_redundant_fakequant(prepared)
del_redundant_fakequant(extra, g) ==
    RunPasses(g, del_redundant_fakequant_calls(extra), 1)

----------------------------------------------------------------------------
(* Module hierarchy                                                         *)

NoChildren == [n \in {} |-> 0]

\* A module: its type, its weight term (<<>> when it has none), the state of
\* its weight fake-quant (or of itself, for a FakeQuantize module), its
\* qconfig attribute and its named children.
Module(type, weight, fake_quant, qconfig, children) ==
    [type |-> type, weight |-> weight, fake_quant |-> fake_quant,
     qconfig |-> qconfig, children |-> children]

FakeQuantize(enabled) == [fake_quant_enabled |-> enabled, calls |-> 0]

QatModule(type, enabled, qconfig) ==
    Module(type, <<"w">>, Some(FakeQuantize(enabled)), qconfig, NoChildren)
PlainModule(type) == Module(type, <<>>, None, None, NoChildren)
FakeQuantizeModule(enabled) ==
    Module("FakeQuantize", <<>>, Some(FakeQuantize(enabled)), None, NoChildren)
Container(children) == Module("nn.Module", <<>>, None, None, children)

\* isinstance(child, SUPPORT_QAT_MODULES)
IsSupportedQat(m) == m.type \in SUPPORT_QAT_MODULES

\* Types whose to_float() folds batch-norm statistics into the weight.
HasBn(type) ==
    type \in {"nniqat.ConvBn1d", "nniqat.ConvBn2d", "nniqat.ConvBn3d",
              "nniqat.ConvBnReLU1d", "nniqat.ConvBnReLU2d",
              "nniqat.ConvBnReLU3d", "nniqat.LinearBn1d"}

\* The float type a QAT type's to_float() returns.
FloatTypeOf(type) ==
    CASE type \in {"nniqat.ConvBn1d", "nnqat.Conv1d"} -> "nn.Conv1d"
      [] type \in {"nniqat.ConvBn2d", "nnqat.Conv2d"} -> "nn.Conv2d"
      [] type \in {"nniqat.ConvBn3d", "nnqat.Conv3d"} -> "nn.Conv3d"
      [] type \in {"nniqat.ConvBnReLU1d", "nniqat.ConvReLU1d"} -> "nni.ConvReLU1d"
      [] type \in {"nniqat.ConvBnReLU2d", "nniqat.ConvReLU2d"} -> "nni.ConvReLU2d"
      [] type \in {"nniqat.ConvBnReLU3d", "nniqat.ConvReLU3d"} -> "nni.ConvReLU3d"
      [] type \in {"nniqat.LinearBn1d", "nnqat.Linear"} -> "nn.Linear"
      [] type = "nniqat.LinearReLU" -> "nni.LinearReLU"

\* cls._FLOAT_MODULE of the QAT classes from_float is called on.
FLOAT_MODULE(cls) ==
    CASE cls = "nnqat.Conv1d" -> "nn.Conv1d"
      [] cls = "nnqat.Conv2d" -> "nn.Conv2d"
      [] cls = "nnqat.Conv3d" -> "nn.Conv3d"
      [] cls = "nnqat.Linear" -> "nn.Linear"
      [] cls = "nniqat.ConvReLU1d" -> "nni.ConvReLU1d"
      [] cls = "nniqat.ConvReLU2d" -> "nni.ConvReLU2d"
      [] cls = "nniqat.ConvReLU3d" -> "nni.ConvReLU3d"
      [] cls = "nniqat.LinearReLU" -> "nni.LinearReLU"
      [] OTHER -> "unsupported"

\* A forward of a fake-quant module on x: the output and the module after.
\* A disabled fake-quant returns its input unchanged.
FakeQuantForward(fq, x) ==
    [out |-> IF fq.fake_quant_enabled THEN Append(x, "fq") ELSE x,
     fq |-> [fq EXCEPT !.calls = @ + 1]]

\* child.to_float(): the float module, batch-norm folded into the weight.
to_float(child) ==
    Module(FloatTypeOf(child.type),
           IF HasBn(child.type) THEN Append(child.weight, "fold")
           ELSE child.weight,
           None, None, NoChildren)

\* cls.from_float(mod): a QAT module of type cls with mod's weight and a new
\* weight fake-quant built from mod.qconfig.
from_float(cls, mod) ==
    IF mod.type = FLOAT_MODULE(cls) /\ IsSome(mod.qconfig)
    THEN Module(cls, mod.weight, Some(FakeQuantize(TRUE)), mod.qconfig,
                NoChildren)
    ELSE Module("AssertionError", mod.weight, None, None, NoChildren)

\* Lines 211-212: child.weight.data = weight_fakequant(child.weight.data)
PreFoldFakeQuant(child) ==
    LET r == FakeQuantForward(child.fake_quant[1], child.weight)
    IN [child EXCEPT !.weight = r.out, !.fake_quant = Some(r.fq)]

\* Variant: the second fake-quant result is stored in the new weight.
KeepFakeQuant_stored(child, float_child, qc) ==
    LET with_qconfig == [float_child EXCEPT !.qconfig = Some(qc)]
        new_child == IF child.type \in DOMAIN MERGE_BN_MAPPINGS
                     THEN from_float(MERGE_BN_MAPPINGS[child.type], with_qconfig)
                     ELSE from_float(child.type, with_qconfig)
    IN IF IsSome(new_child.fake_quant)
       THEN LET r == FakeQuantForward(new_child.fake_quant[1], new_child.weight)
            IN [new_child EXCEPT !.weight = r.out, !.fake_quant = Some(r.fq)]
       ELSE new_child

\* Lines 223-232: the keep_fake_quant branch.
KeepFakeQuant(child, float_child, qc) ==
    LET with_qconfig == [float_child EXCEPT !.qconfig = Some(qc)]
        new_child == IF child.type \in DOMAIN MERGE_BN_MAPPINGS
                     THEN from_float(MERGE_BN_MAPPINGS[child.type], with_qconfig)
                     ELSE from_float(child.type, with_qconfig)
    IN IF IsSome(new_child.fake_quant)
       THEN [new_child EXCEPT !.fake_quant =
               Some(FakeQuantForward(new_child.fake_quant[1],
                                     new_child.weight).fq)]
       ELSE new_child

\* Variant: a weight that was fake-quantized before is not fake-quantized
\* again.
NewChild_guarded(child, keep_fake_quant, qc) ==
    LET float_child == to_float(IF \E i \in DOMAIN child.weight :
                                      child.weight[i] = "fq"
                                THEN child ELSE PreFoldFakeQuant(child))
    IN IF keep_fake_quant THEN KeepFakeQuant(child, float_child, qc)
       ELSE float_child

\* Lines 206-235: the module that replaces a supported QAT child.
NewChild(child, keep_fake_quant, qc) ==
    LET float_child == to_float(PreFoldFakeQuant(child))
    IN IF keep_fake_quant THEN KeepFakeQuant(child, float_child, qc)
       ELSE float_child

\* Variant: only the direct children of the root are visited.
traverse_norecurse(module, keep_fake_quant, qc) ==
    [module EXCEPT !.children =
        [name \in DOMAIN module.children |->
            IF IsSupportedQat(module.children[name])
            THEN NewChild(module.children[name], keep_fake_quant, qc)
            ELSE module.children[name]]]

RECURSIVE traverse(_, _, _)
traverse(module, keep_fake_quant, qc) ==
    [module EXCEPT !.children =
        [name \in DOMAIN module.children |->
            IF IsSupportedQat(module.children[name])
            THEN NewChild(module.children[name], keep_fake_quant, qc)
            ELSE traverse(module.children[name], keep_fake_quant, qc)]]

\* module.apply(enable_fake_quant)
RECURSIVE apply_enable_fake_quant(_)
apply_enable_fake_quant(module) ==
    [module EXCEPT
        !.fake_quant = IF IsSome(@)
                       THEN Some([@[1] EXCEPT !.fake_quant_enabled = TRUE])
                       ELSE @,
        !.children = [name \in DOMAIN @ |-> apply_enable_fake_quant(@[name])]]

\* NativeQuantizer.post_process_weight_fakequant(observed_module, keep)
post_process_weight_fakequant(self, module, keep_fake_quant) ==
    traverse(apply_enable_fake_quant(module), keep_fake_quant,
             convert(self.qconfig[1]))

----------------------------------------------------------------------------
(* prepare                                                                  *)

ModTarget(g, i) ==
    IF i <= Len(g) /\ g[i].kind = "module" THEN g[i].target ELSE ""

\* _fuse_fx: conv/linear followed by batch-norm and/or ReLU becomes one fused
\* module; with is_qat the fused module is of a trainable fused type,
\* without it a plain nn.Sequential.
RECURSIVE FuseFrom(_, _, _)
FuseFrom(g, i, is_qat) ==
    LET fused(type, n) ==
            <<Call("module", IF is_qat THEN type ELSE "nn.Sequential")>>
            \o FuseFrom(g, i + n, is_qat)
    IN IF i > Len(g) THEN <<>>
       ELSE CASE ModTarget(g, i) = "nn.Conv2d"
                 /\ ModTarget(g, i + 1) = "nn.BatchNorm2d"
                 /\ ModTarget(g, i + 2) = "nn.ReLU" -> fused("nni.ConvBnReLU2d", 3)
              [] ModTarget(g, i) = "nn.Conv2d"
                 /\ ModTarget(g, i + 1) = "nn.BatchNorm2d"
                 /\ ModTarget(g, i + 2) # "nn.ReLU" -> fused("nni.ConvBn2d", 2)
              [] ModTarget(g, i) = "nn.Conv2d"
                 /\ ModTarget(g, i + 1) = "nn.ReLU" -> fused("nni.ConvReLU2d", 2)
              [] ModTarget(g, i) = "nn.Linear"
                 /\ ModTarget(g, i + 1) = "nn.ReLU" -> fused("nni.LinearReLU", 2)
              [] OTHER -> <<g[i]>> \o FuseFrom(g, i + 1, is_qat)
fuse_fx(graph_module, is_qat, backend_config) == FuseFrom(graph_module, 1, is_qat)

\* The qconfig a node gets from the mapping: the object-type entry of a
\* module's type when there is one, the global default otherwise.
QConfigOf(mapping, node) ==
    IF node.kind = "module"
       /\ \E i \in DOMAIN mapping.object_type :
             mapping.object_type[i].cls = node.target
    THEN LET i == CHOOSE i \in DOMAIN mapping.object_type :
                     mapping.object_type[i].cls = node.target
         IN mapping.object_type[i].qconfig
    ELSE mapping.global
IsObserved(mapping, node) == IsSome(QConfigOf(mapping, node))

\* The QAT type a float type is swapped to when it carries a qconfig.
QatTypeOf(type) ==
    CASE type = "nn.Conv2d" -> "nnqat.Conv2d"
      [] type = "nn.Linear" -> "nnqat.Linear"
      [] type = "nni.ConvBn2d" -> "nniqat.ConvBn2d"
      [] type = "nni.ConvBnReLU2d" -> "nniqat.ConvBnReLU2d"
      [] type = "nni.ConvReLU2d" -> "nniqat.ConvReLU2d"
      [] type = "nni.LinearReLU" -> "nniqat.LinearReLU"
      [] OTHER -> type

RECURSIVE InsertFrom(_, _, _)
InsertFrom(g, mapping, i) ==
    LET edge_fq == \/ i >= 1 /\ IsObserved(mapping, g[i])
                   \/ i + 1 <= Len(g) /\ IsObserved(mapping, g[i + 1])
        node == IF g[i].kind = "module" /\ IsObserved(mapping, g[i])
                THEN Call("module", QatTypeOf(g[i].target)) ELSE g[i]
    IN IF i > Len(g) THEN <<>>
       ELSE (IF i >= 1 THEN <<node>> ELSE <<>>)
            \o (IF edge_fq THEN <<FQ>> ELSE <<>>)
            \o InsertFrom(g, mapping, i + 1)

\* torch.ao.quantization.fx.prepare: observed modules are swapped to their
\* QAT type and every edge into or out of an observed node gets one
\* fake-quant node.
torch_prepare(model, qconfig_mapping, is_qat) ==
    IF Len(model) = 0 THEN <<>> ELSE InsertFrom(model, qconfig_mapping, 0)

NodeNames == <<"n1", "n2", "n3", "n4", "n5", "n6", "n7", "n8", "n9", "n10",
               "n11", "n12", "n13", "n14", "n15">>

\* The module hierarchy of an observed graph: one child of the root per
\* module node and per fake-quant node.
ModuleTreeOf(g, qc) ==
    LET idx == {i \in DOMAIN g : g[i].kind \in {"module", "fakequant"}}
        ofName(n) == CHOOSE i \in idx : NodeNames[i] = n
        mod(node) == IF IsFQ(node) THEN FakeQuantizeModule(TRUE)
                     ELSE IF node.target \in SUPPORT_QAT_MODULES
                          THEN QatModule(node.target, TRUE, Some(qc))
                          ELSE PlainModule(node.target)
    IN Container([n \in {NodeNames[i] : i \in idx} |-> mod(g[ofName(n)])])

\* Variant: the observed graph is returned without pruning.
prepare_steps_noprune(self, graph_module) ==
    LET fused == fuse_fx(graph_module, TRUE, self.backend_config[1])
        observed == torch_prepare(fused, self.qconfig_mapping[1], TRUE)
    IN <<[step |-> "_fuse_fx", is_qat |-> TRUE,
          arg |-> graph_module, ret |-> fused],
         [step |-> "prepare", is_qat |-> TRUE,
          arg |-> fused, ret |-> observed]>>

\* NativeQuantizer.prepare: its three steps in order, each with its
\* argument and its result.
prepare_steps(self, graph_module) ==
    LET fused == fuse_fx(graph_module, TRUE, self.backend_config[1])
        observed == torch_prepare(fused, self.qconfig_mapping[1], TRUE)
        pruned == del_redundant_fakequant(
                      self.extra_redundant_fakequants[1], observed)
    IN <<[step |-> "_fuse_fx", is_qat |-> TRUE,
          arg |-> graph_module, ret |-> fused],
         [step |-> "prepare", is_qat |-> TRUE,
          arg |-> fused, ret |-> observed],
         [step |-> "del_redundant_fakequant", is_qat |-> TRUE,
          arg |-> observed, ret |-> pruned]>>

\* The graph prepare returns.
prepare(self, graph_module) ==
    LET steps == prepare_steps(self, graph_module)
    IN steps[Len(steps)].ret

----------------------------------------------------------------------------
(* Inputs                                                                   *)

ExtraKeys ==
    {"extra_module_prev_wo_fakequant", "extra_module_next_wo_fakequant",
     "extra_function_prev_wo_fakequant", "extra_function_next_wo_fakequant",
     "extra_method_prev_wo_fakequant", "extra_method_next_wo_fakequant",
     "extra_op_prev_wo_fakequant", "extra_op_next_wo_fakequant"}

\* The default value of the extra_redundant_fakequants argument.
DefaultExtras == [k \in ExtraKeys |-> <<>>]

DefaultTracer == "CustomTracer"

Cfg(w, a, nom, extra) ==
    [global_qconfig |-> [w_per_channel |-> w, a_per_channel |-> a],
     no_observer_modules |-> nom, tracer |-> DefaultTracer,
     extra_redundant_fakequants |-> extra]

\* Configurations of the full life cycle.
NoObserverInputs ==
    {PyNone, PyList(<<>>), PyList(<<"torch.nn.ReLU">>),
     PyList(<<"torch.nn.ReLU", "torch.nn.Linear">>)}
LifeExtras ==
    {DefaultExtras,
     "extra_module_next_wo_fakequant" :> <<"nniqat.ConvReLU2d">>}
LifeCfgs ==
    {Cfg(w, a, nom, extra) : w \in BOOLEAN, a \in BOOLEAN,
                             nom \in NoObserverInputs, extra \in LifeExtras}

\* Traced graphs given to prepare: chains of calls.
TracedCalls ==
    {Call("module", "nn.Conv2d"), Call("module", "nn.BatchNorm2d"),
     Call("module", "nn.ReLU"), Call("module", "nn.Linear"),
     Call("function", "torch.flatten")}
TracedGraphs == UNION {[1..n -> TracedCalls] : n \in 1..MaxTraced}

\* Configurations for the pruner: the default dict (every key present and
\* empty) and the dicts that hold only non-empty lists, at most MaxExtra of
\* them (the other keys absent). An extra list names the target "t1"; the
\* calls of a graph have that target or, for modules and functions, the
\* target "t2" that no extra list names.
PruneTargets == {"t1", "t2"}
PruneCalls ==
    {Call(k, "t1") : k \in CallKinds}
    \cup {Call(k, "t2") : k \in {"module", "function"}}
ExtraDicts ==
    {DefaultExtras}
    \cup {[k \in NE |-> <<"t1">>] :
             NE \in {S \in SUBSET ExtraKeys :
                       S # {} /\ Cardinality(S) <= MaxExtra}}
PruneCfgs == {Cfg(TRUE, FALSE, PyNone, extra) : extra \in ExtraDicts}

\* Observed graphs: at most one fake-quant node on an edge, at least one in
\* the graph.
ObservedGraphs ==
    {g \in UNION {[1..n -> PruneCalls \cup {FQ}] : n \in 1..MaxNodes} :
        /\ \E i \in DOMAIN g : IsFQ(g[i])
        /\ \A i \in 1..(Len(g) - 1) : ~(IsFQ(g[i]) /\ IsFQ(g[i + 1]))}

\* Trained module trees: one or two leaves, each a supported QAT module or a
\* plain module, at prefix-free paths of at most MaxDepth child names.
ChildNames == {"a", "b"}
Paths == UNION {[1..n -> ChildNames] : n \in 1..MaxDepth}
IsPrefix(p, q) == Len(p) <= Len(q) /\ SubSeq(q, 1, Len(p)) = p
PathSets ==
    {{p} : p \in Paths}
    \cup {{pq[1], pq[2]} :
             pq \in {x \in Paths \X Paths :
                        ~IsPrefix(x[1], x[2]) /\ ~IsPrefix(x[2], x[1])}}
DefaultQConfig == convert(QConfigHander([w_per_channel |-> TRUE,
                                         a_per_channel |-> FALSE]))
Leaves(enabled) ==
    {QatModule(t, enabled, Some(DefaultQConfig)) : t \in SUPPORT_QAT_MODULES}
    \cup {PlainModule("nn.ReLU")}

RECURSIVE BuildTree(_, _)
BuildTree(assign, prefix) ==
    Container(
        [n \in {c \in ChildNames :
                   \E p \in DOMAIN assign : IsPrefix(Append(prefix, c), p)} |->
            IF Append(prefix, n) \in DOMAIN assign
            THEN assign[Append(prefix, n)]
            ELSE BuildTree(assign, Append(prefix, n))])


----------------------------------------------------------------------------
(* Actions                                                                  *)

NoGraph == <<>>
CallRec(op, keep, graph) == [op |-> op, keep |-> keep, graph |-> graph]

\* NativeQuantizer(**cfg)
Construct(cfg) ==
    /\ quantizer.state = "none"
    /\ quantizer' = NativeQuantizer_init(cfg)
    /\ last_call' = CallRec("__init__", FALSE, NoGraph)
    /\ UNCHANGED <<prepared, observed_module, pass_log, prepare_log, pp_calls>>

\* quantizer.prepare(model, graph_module)
Prepare(graph_module) ==
    /\ quantizer.state = "ok"
    /\ LET steps == prepare_steps(quantizer, graph_module)
       IN /\ prepare_log' = steps
          /\ prepared' = Some(prepare(quantizer, graph_module))
          /\ observed_module' =
                Some(ModuleTreeOf(steps[2].ret,
                                  quantizer.qconfig_mapping[1].global[1]))
    /\ pass_log' = del_redundant_fakequant_calls(
                       quantizer.extra_redundant_fakequants[1])
    /\ pp_calls' = 0
    /\ last_call' = CallRec("prepare", FALSE, graph_module)
    /\ UNCHANGED quantizer

\* quantizer.del_redundant_fakequant(g)
DelRedundantFakequant(g) ==
    /\ quantizer.state = "ok"
    /\ prepared' = Some(del_redundant_fakequant(
                            quantizer.extra_redundant_fakequants[1], g))
    /\ pass_log' = del_redundant_fakequant_calls(
                       quantizer.extra_redundant_fakequants[1])
    /\ last_call' = CallRec("del_redundant_fakequant", FALSE, g)
    /\ UNCHANGED <<quantizer, observed_module, prepare_log, pp_calls>>

\* quantizer.post_process_weight_fakequant(observed_module, keep_fake_quant)
PostProcess(keep_fake_quant) ==
    /\ quantizer.state = "ok"
    /\ IsSome(observed_module)
    /\ pp_calls < MaxCalls
    /\ observed_module' =
          Some(post_process_weight_fakequant(quantizer, observed_module[1],
                                             keep_fake_quant))
    /\ pp_calls' = pp_calls + 1
    /\ last_call' = CallRec("post_process_weight_fakequant", keep_fake_quant,
                            NoGraph)
    /\ UNCHANGED <<quantizer, prepared, pass_log, prepare_log>>

----------------------------------------------------------------------------
(* Specifications                                                           *)

InitVars(q, om) ==
    /\ quantizer = q
    /\ prepared = None
    /\ observed_module = om
    /\ pass_log = <<>>
    /\ prepare_log = <<>>
    /\ last_call = CallRec("none", FALSE, NoGraph)
    /\ pp_calls = 0

\* The full life cycle of one quantizer.
Init == InitVars(NoQuantizer, None)
ConstructLife == \E cfg \in LifeCfgs : Construct(cfg)
PrepareTraced == prepared = None /\ \E g \in TracedGraphs : Prepare(g)
PruneAgain == IsSome(prepared) /\ DelRedundantFakequant(prepared[1])
PostProcessAny == \E keep \in BOOLEAN : PostProcess(keep)
Next == ConstructLife \/ PrepareTraced \/ PruneAgain \/ PostProcessAny
Spec == Init /\ [][Next]_vars

\* The pruner on every observed graph under every extra-list setting.
ConstructPrune == \E cfg \in PruneCfgs : Construct(cfg)
PruneObserved ==
    prepared = None /\ \E g \in ObservedGraphs : DelRedundantFakequant(g)
NextPrune == ConstructPrune \/ PruneObserved \/ PruneAgain
SpecPrune == Init /\ [][NextPrune]_vars

\* The converter on every trained module tree.
InitFold ==
    \E P \in PathSets, enabled \in BOOLEAN :
        \E assign \in [P -> Leaves(enabled)] :
            InitVars(NativeQuantizer_init(
                         Cfg(TRUE, FALSE, PyNone, DefaultExtras)),
                     Some(BuildTree(assign, <<>>)))
NextFold == PostProcessAny
SpecFold == InitFold /\ [][NextFold]_vars

----------------------------------------------------------------------------
(* Properties                                                               *)

Extras == quantizer.extra_redundant_fakequants[1]
LastOp == last_call.op

\* C1: construction succeeds exactly when the activation scheme is
\* per-tensor (for both weight modes); when it fails, the failure is an
\* assertion error raised before the qconfig mapping, the backend config and
\* every later attribute is built, and no graph or module has been touched.
C1_ConstructionFailsFast ==
    quantizer.state # "none" =>
        /\ quantizer.state = "ok"
              <=> ~quantizer.qconfig[1].a_qscheme.is_per_channel
        /\ quantizer.state = "failed" =>
              /\ quantizer.error = "AssertionError"
              /\ quantizer.qconfig_mapping = None
              /\ quantizer.no_observer_modules = None
              /\ quantizer.backend_config = None
              /\ quantizer.example_inputs = None
              /\ quantizer.extra_redundant_fakequants = None
              /\ prepared = None /\ observed_module = None
        /\ quantizer.state = "ok" =>
              /\ IsSome(quantizer.qconfig_mapping)
              /\ IsSome(quantizer.backend_config)

C1_Witness ==
    /\ quantizer.state = "failed"
    /\ quantizer.qconfig[1].a_qscheme.is_per_channel
    /\ quantizer.qconfig[1].w_qscheme.is_per_channel

\* The exempt list of a pass's own category: base list + extra list.
OwnList(fn, extra) ==
    CASE fn = "del_fakequant_before_module" ->
            module_prev_wo_fakequant
            \o DictGet(extra, "extra_module_prev_wo_fakequant", <<>>)
      [] fn = "del_fakequant_after_module" ->
            module_next_wo_fakequant
            \o DictGet(extra, "extra_module_next_wo_fakequant", <<>>)
      [] fn = "del_fakequant_before_function" ->
            function_prev_wo_fakequant
            \o DictGet(extra, "extra_function_prev_wo_fakequant", <<>>)
      [] fn = "del_fakequant_after_function" ->
            function_next_wo_fakequant
            \o DictGet(extra, "extra_function_next_wo_fakequant", <<>>)
      [] fn = "del_fakequant_before_method" ->
            method_prev_wo_fakequant
            \o DictGet(extra, "extra_method_prev_wo_fakequant", <<>>)
      [] fn = "del_fakequant_after_method" ->
            method_next_wo_fakequant
            \o DictGet(extra, "extra_method_next_wo_fakequant", <<>>)
      [] fn = "del_fakequant_before_op" ->
            op_prev_wo_fakequant
            \o DictGet(extra, "extra_op_prev_wo_fakequant", <<>>)
      [] fn = "del_fakequant_after_op" ->
            op_next_wo_fakequant
            \o DictGet(extra, "extra_op_next_wo_fakequant", <<>>)

PassNames ==
    {"del_fakequant_before_module", "del_fakequant_after_module",
     "del_fakequant_before_function", "del_fakequant_after_function",
     "del_fakequant_before_method", "del_fakequant_after_method",
     "del_fakequant_before_op", "del_fakequant_after_op"}

\* C2: a call of del_redundant_fakequant makes eight pass calls, one per
\* (call kind, position) pair, and every pass receives the exempt list of
\* its own category (function lists to the function passes, method lists to
\* the method passes).
C2_EachPassGetsOwnList ==
    LastOp = "del_redundant_fakequant" =>
        /\ Len(pass_log) = 8
        /\ {pass_log[i].fn : i \in DOMAIN pass_log} = PassNames
        /\ \A i \in DOMAIN pass_log :
              pass_log[i].arg = OwnList(pass_log[i].fn, Extras)

FQCount(g) == Cardinality({i \in DOMAIN g : IsFQ(g[i])})
CallsOf(g) == SelectSeq(g, LAMBDA n : ~IsFQ(n))

\* C3: the graph a call of del_redundant_fakequant returns is a fixed point
\* of del_redundant_fakequant (a second application changes nothing), and
\* along the eight passes the fake-quant nodes only decrease while the call
\* nodes stay as they are.
C3_PruneIdempotent ==
    LastOp = "del_redundant_fakequant" =>
        LET g == last_call.graph
            calls == del_redundant_fakequant_calls(Extras)
            after(i) == RunPasses(g, SubSeq(calls, 1, i), 1)
        IN /\ prepared[1] = del_redundant_fakequant(Extras, g)
           /\ del_redundant_fakequant(Extras, prepared[1]) = prepared[1]
           /\ \A i \in 1..Len(calls) :
                 /\ FQCount(after(i)) <= FQCount(after(i - 1))
                 /\ CallsOf(after(i)) = CallsOf(g)

C3_Witness ==
    /\ LastOp = "del_redundant_fakequant"
    /\ Len(prepared[1]) < Len(last_call.graph)
    /\ FQCount(prepared[1]) > 0

\* The positions of g whose node a call of del_redundant_fakequant erases.
Tagged(g) == [i \in DOMAIN g |-> [kind |-> g[i].kind, target |-> g[i].target,
                                  id |-> i]]
Deleted(extra, g) ==
    LET out == del_redundant_fakequant(extra, Tagged(g))
    IN (DOMAIN g) \ {out[i].id : i \in DOMAIN out}
AddEntry(extra, key, t) ==
    [k \in DOMAIN extra \cup {key} |->
        IF k = key THEN DictGet(extra, key, <<>>) \o <<t>> ELSE extra[k]]
FQBeforeModule(g, t) ==
    {i \in DOMAIN g : IsFQ(g[i]) /\ i < Len(g)
                      /\ g[i + 1] = Call("module", t)}

\* C4: adding an entry t to extra_module_prev_wo_fakequant erases exactly the
\* nodes erased without it plus the fake-quant nodes immediately before a
\* module of type t; an entry that matches no node erases nothing more; a
\* dict with absent keys prunes like the dict with those keys empty.
C4_ModulePrevAdditive ==
    LastOp = "del_redundant_fakequant" =>
        LET g == last_call.graph
        IN /\ \A t \in PruneTargets \cup {"absent_type"} :
                 Deleted(AddEntry(Extras, "extra_module_prev_wo_fakequant", t), g)
                    = Deleted(Extras, g) \cup FQBeforeModule(g, t)
           /\ FQBeforeModule(g, "absent_type") = {}
           /\ del_redundant_fakequant(
                  [k \in ExtraKeys |-> DictGet(Extras, k, <<>>)], g)
                 = prepared[1]

C4_Witness ==
    /\ LastOp = "del_redundant_fakequant"
    /\ DOMAIN Extras # ExtraKeys
    /\ Deleted(Extras, last_call.graph) # {}
    /\ \E t \in PruneTargets :
          ~(FQBeforeModule(last_call.graph, t)
               \subseteq Deleted(Extras, last_call.graph))


RECURSIVE Descendants(_)
Descendants(m) ==
    UNION {{m.children[n]} \cup Descendants(m.children[n]) :
           n \in DOMAIN m.children}

\* Descendants that sit below a container child of the root.
NestedDescendants(m) ==
    UNION {Descendants(m.children[n]) : n \in DOMAIN m.children}

Count(term, tag) == Cardinality({i \in DOMAIN term : term[i] = tag})
FloatTypes ==
    {"nn.Conv1d", "nn.Conv2d", "nn.Conv3d", "nn.Linear", "nni.ConvReLU1d",
     "nni.ConvReLU2d", "nni.ConvReLU3d", "nni.LinearReLU"}
BnFusedTypes ==
    {"nniqat.ConvBn1d", "nniqat.ConvBn2d", "nniqat.ConvBn3d",
     "nniqat.ConvBnReLU1d", "nniqat.ConvBnReLU2d", "nniqat.ConvBnReLU3d",
     "nniqat.LinearBn1d"}

PostStep(keep) ==
    /\ last_call'.op = "post_process_weight_fakequant"
    /\ last_call'.keep = keep

C5_Rel(c, d) ==
    /\ d.type \in FloatTypes
    /\ Count(d.weight, "fq") = Count(c.weight, "fq") + 1
    /\ d.weight = IF c.type \in BnFusedTypes
                  THEN c.weight \o <<"fq", "fold">>
                  ELSE c.weight \o <<"fq">>
    /\ d.fake_quant = None
    /\ d.children = NoChildren

\* The type the claim gives the replacement of a supported QAT type when the
\* fake-quant structure is kept.
C6_KeptType(type) ==
    CASE type = "nniqat.ConvBn1d" -> "nnqat.Conv1d"
      [] type = "nniqat.ConvBn2d" -> "nnqat.Conv2d"
      [] type = "nniqat.ConvBn3d" -> "nnqat.Conv3d"
      [] type = "nniqat.ConvBnReLU1d" -> "nniqat.ConvReLU1d"
      [] type = "nniqat.ConvBnReLU2d" -> "nniqat.ConvReLU2d"
      [] type = "nniqat.ConvBnReLU3d" -> "nniqat.ConvReLU3d"
      [] type = "nniqat.LinearBn1d" -> "nnqat.Linear"
      [] OTHER -> type
C6_Rel(c, d) == d.type = C6_KeptType(c.type)

C7_OrigRel(c, d) ==
    c.type \in BnFusedTypes => d.weight = c.weight \o <<"fq", "fold", "fq">>

C7_Rel(c, d) ==
    /\ d.weight = IF c.type \in BnFusedTypes
                  THEN c.weight \o <<"fq", "fold">>
                  ELSE c.weight \o <<"fq">>
    /\ IsSome(d.fake_quant)
    /\ d.fake_quant[1].calls = 1
    /\ d.fake_quant[1].fake_quant_enabled

C8_Rel(c, d) ==
    /\ c.type \notin BnFusedTypes
    /\ d.weight = c.weight \o <<"fq">>
    /\ Count(d.weight, "fold") = Count(c.weight, "fold")

Rel(which, c, d) ==
    CASE which = "C5" -> C5_Rel(c, d)
      [] which = "C6" -> C6_Rel(c, d)
      [] which = "C7_orig" -> C7_OrigRel(c, d)
      [] which = "C7" -> C7_Rel(c, d)
      [] which = "C8" -> C8_Rel(c, d)

\* old and new agree on every module that is not a supported QAT module and
\* is reached through such modules only, and Rel(which, c, d) holds of every
\* supported QAT module c so reached and the module d under the same child
\* name of the same parent.
RECURSIVE Replaced(_, _, _)
Replaced(old, new, which) ==
    /\ new.type = old.type
    /\ new.weight = old.weight
    /\ DOMAIN new.children = DOMAIN old.children
    /\ \A n \in DOMAIN old.children :
          IF old.children[n].type \in SUPPORT_QAT_MODULES
          THEN Rel(which, old.children[n], new.children[n])
          ELSE Replaced(old.children[n], new.children[n], which)

\* C5: a call with keep_fake_quant=False replaces every supported QAT module
\* below the root, at any depth, under its child name by a float module
\* whose weight is the stored weight fake-quantized exactly once (then
\* folded, for a batch-norm fused type); no supported QAT module remains;
\* the other modules stay in place.
C5_FloatReplacement ==
    [][PostStep(FALSE) =>
          /\ Replaced(observed_module[1], observed_module'[1], "C5")
          /\ \A m \in Descendants(observed_module'[1]) :
                m.type \notin SUPPORT_QAT_MODULES]_vars

C5_Witness ==
    /\ LastOp = "post_process_weight_fakequant" /\ ~last_call.keep
    /\ pp_calls = 1
    /\ \E m \in NestedDescendants(observed_module[1]) :
          m.type = "nni.ConvReLU2d" /\ m.weight = <<"w", "fq", "fold">>
    /\ \E n \in DOMAIN observed_module[1].children :
          observed_module[1].children[n].type = "nn.Linear"

\* C6: a call with keep_fake_quant=True replaces a batch-norm fused QAT
\* module by a module of the normalization-free QAT type (ConvBn* -> Conv*,
\* ConvBnReLU* -> ConvReLU*, LinearBn1d -> Linear) and any other supported
\* module by a module of its own type; afterwards no descendant has a
\* batch-norm fused QAT type.
C6_MergeMappedType ==
    [][PostStep(TRUE) =>
          /\ Replaced(observed_module[1], observed_module'[1], "C6")
          /\ \A m \in Descendants(observed_module'[1]) :
                m.type \notin BnFusedTypes]_vars

C6_Witness ==
    /\ LastOp = "post_process_weight_fakequant" /\ last_call.keep
    /\ pp_calls = 1
    /\ \E m \in NestedDescendants(observed_module[1]) :
          m.type = "nniqat.ConvReLU2d" /\ m.weight = <<"w", "fq", "fold">>
    /\ \E m \in Descendants(observed_module[1]) :
          m.type = "nniqat.LinearReLU" /\ m.weight = <<"w", "fq">>

\* C7 as stated: with keep_fake_quant=True the weight stored in the module
\* that replaces a batch-norm fused module is the fake-quantized value of
\* the folded weight.
C7_StoredWeightRequantized ==
    [][PostStep(TRUE) =>
          Replaced(observed_module[1], observed_module'[1], "C7_orig")]_vars

\* C7 amended: with keep_fake_quant=True the weight fake-quant of the
\* reconstructed module is run once on its weight and the result is
\* discarded: the stored weight stays the folded value of the weight that
\* was fake-quantized once before folding.
C7_SecondFakeQuantDiscarded ==
    [][PostStep(TRUE) =>
          Replaced(observed_module[1], observed_module'[1], "C7")]_vars

C7_Witness ==
    /\ LastOp = "post_process_weight_fakequant" /\ last_call.keep
    /\ pp_calls = 1
    /\ \E m \in Descendants(observed_module[1]) :
          /\ m.type = "nnqat.Conv2d"
          /\ m.weight = <<"w", "fq", "fold">>
          /\ m.fake_quant = Some([fake_quant_enabled |-> TRUE, calls |-> 1])

HasProcessed(tree) ==
    \E m \in Descendants(tree) : Count(m.weight, "fq") > 0

\* C8 as stated: a second call, for either value of keep_fake_quant, on a
\* tree whose supported modules the first call converted changes the tree.
C8_SecondCallChangesTree ==
    [][(/\ last_call'.op = "post_process_weight_fakequant"
        /\ pp_calls >= 1
        /\ HasProcessed(observed_module[1]))
          => observed_module' # observed_module]_vars

\* C8 amended: nothing guards a second call.  Every supported QAT module the
\* tree still holds (the modules a keep_fake_quant=True call put there) has
\* its stored weight fake-quantized and overwritten once more, with no
\* second batch-norm fold; a tree that holds none (after a
\* keep_fake_quant=False call) is left exactly as it is.
C8_SecondCallRequantizesKept ==
    [][(last_call'.op = "post_process_weight_fakequant" /\ pp_calls >= 1) =>
          /\ Replaced(observed_module[1], observed_module'[1], "C8")
          /\ (\A m \in Descendants(observed_module[1]) :
                 m.type \notin SUPPORT_QAT_MODULES)
                => observed_module' = observed_module]_vars

C8_Witness ==
    /\ LastOp = "post_process_weight_fakequant"
    /\ pp_calls = 2
    /\ \E m \in Descendants(observed_module[1]) :
          m.weight = <<"w", "fq", "fold", "fq">>


\* C9: a call of prepare makes exactly the steps fuse, insert observers,
\* prune, in this order: fusion runs on the traced graph in training mode,
\* observer insertion on the fused graph with the quantizer's qconfig
\* mapping, del_redundant_fakequant once on the observed graph; the graph
\* returned is the pruner's result.
C9_PrepareOrder ==
    LastOp = "prepare" =>
        /\ Len(prepare_log) = 3
        /\ <<prepare_log[1].step, prepare_log[2].step, prepare_log[3].step>>
              = <<"_fuse_fx", "prepare", "del_redundant_fakequant">>
        /\ prepare_log[1].is_qat
        /\ prepare_log[1].arg = last_call.graph
        /\ \A i \in DOMAIN prepare_log[1].ret :
              prepare_log[1].ret[i].target # "nn.Sequential"
        /\ prepare_log[2].arg = prepare_log[1].ret
        /\ prepare_log[2].ret =
              torch_prepare(prepare_log[1].ret,
                            quantizer.qconfig_mapping[1], TRUE)
        /\ prepare_log[3].arg = prepare_log[2].ret
        /\ prepare_log[3].ret =
              del_redundant_fakequant(Extras, prepare_log[2].ret)
        /\ prepared = Some(prepare_log[3].ret)
        /\ pass_log = del_redundant_fakequant_calls(Extras)

C9_Witness ==
    /\ LastOp = "prepare"
    /\ Len(prepare_log[1].ret) < Len(prepare_log[1].arg)
    /\ Len(prepare_log[2].ret) > Len(prepare_log[2].arg)
    /\ Len(prepare_log[3].ret) < Len(prepare_log[3].arg)

MappingAsBuilt(q) ==
    LET m == q.qconfig_mapping[1]
        nom == q.no_observer_modules[1]
    IN /\ m.global = Some(convert(q.qconfig[1]))
       /\ {m.object_type[i].cls : i \in DOMAIN m.object_type}
             = (IF nom.is_none THEN {} ELSE Range(nom.items))
       /\ \A i \in DOMAIN m.object_type : m.object_type[i].qconfig = None
       /\ \A i, j \in DOMAIN m.object_type :
             m.object_type[i].cls = m.object_type[j].cls => i = j

\* C10: from construction on, the qconfig mapping has the converted
\* configuration as its global default and maps exactly the types of
\* no_observer_modules to None (no object-type entry when that argument is
\* None or empty); no later call changes the mapping.
C10_MappingBuiltOnce ==
    /\ [](quantizer.state = "ok" => MappingAsBuilt(quantizer))
    /\ [][quantizer.state = "ok" =>
             quantizer'.qconfig_mapping = quantizer.qconfig_mapping]_vars

C10_Witness ==
    /\ quantizer.state = "ok"
    /\ Len(quantizer.qconfig_mapping[1].object_type) = 2
    /\ IsSome(prepared)
    /\ pp_calls = MaxCalls
    /\ \E i \in DOMAIN prepared[1] : prepared[1][i].target = "nn.ReLU"

====
